---- MODULE Spec2Model ----
(***************************************************************************)
(* Model of the Gitswhy vault manager (gitswhy_vault_manager.py): the      *)
(* store / retrieve / analyze / analyze_builtin operations of main(), the  *)
(* functions they call, and the files and environment they read and write. *)
(*                                                                         *)
(* Python values are tagged records:                                       *)
(*   [t |-> "None"], [t |-> "int", n |-> 42], [t |-> "str", chars |-> s],  *)
(*   [t |-> "list", items |-> <<v1, ...>>],                                *)
(*   [t |-> "dict", pairs |-> << <<key, v>>, ... >>]  (insertion ordered)  *)
(* A str is a sequence of one-character strings.  A file's text is a       *)
(* sequence of pieces (see "Text" below); the empty text is << >>.         *)
(***************************************************************************)
EXTENDS Integers, Sequences, FiniteSets, TLC

VARIABLES
    environ,    \* value of GITSWHY_VAULT_PASSWORD in os.environ (None if unset)
    configFile, \* state of the file named by --config
    vaultFile,  \* state of the file named by --vault-file
    last,       \* the last operation run: its arguments, exit status, output
    stored,     \* history: the last successful store that wrote vaultFile
    urandom,    \* how many times os.urandom(16) was called so far
    sealed,     \* history: the salts of the envelopes store wrote, in order
    writing,    \* a store between open(vault, 'w') and the close of the file
    reading     \* a retrieve between the first and the last read of the file

vars ==
    <<environ, configFile, vaultFile, last, stored, urandom, sealed, writing,
      reading>>

-----------------------------------------------------------------------------
(* Python values *)

None == [t |-> "None"]
PyInt(n) == [t |-> "int", n |-> n]
PyStr(s) == [t |-> "str", chars |-> s]
PyList(xs) == [t |-> "list", items |-> xs]
PyDict(ps) == [t |-> "dict", pairs |-> ps]

\* Python truthiness, for the values the program tests with "if x" / "not x".
Truthy(v) ==
    CASE v.t = "None" -> FALSE
      [] v.t = "str" -> v.chars # << >>
      [] v.t = "int" -> v.n # 0
      [] v.t = "list" -> v.items # << >>
      [] v.t = "dict" -> v.pairs # << >>

\* Result of a call that may raise: Ok(v) or Raise.
Ok(v) == [ok |-> TRUE, val |-> v]
Raise == [ok |-> FALSE]

HasKey(d, key) == \E i \in 1..Len(d.pairs) : d.pairs[i][1] = key

\* d.get(key, default) on a dict d.
DictGet(d, key, default) ==
    IF HasKey(d, key)
    THEN d.pairs[CHOOSE i \in 1..Len(d.pairs) :
                    /\ d.pairs[i][1] = key
                    /\ \A j \in (i+1)..Len(d.pairs) : d.pairs[j][1] # key][2]
    ELSE default

\* x.get(key, default) on any value: only a dict has .get (AttributeError).
Get(x, key, default) ==
    IF x.t = "dict" THEN Ok(DictGet(x, key, default)) ELSE Raise

-----------------------------------------------------------------------------
(* Strings *)

RECURSIVE Concat(_)
Concat(ss) == IF ss = << >> THEN << >> ELSE Head(ss) \o Concat(Tail(ss))

UpperCase == <<"A","B","C","D","E","F","G","H","I","J","K","L","M",
               "N","O","P","Q","R","S","T","U","V","W","X","Y","Z">>
LowerCase == <<"a","b","c","d","e","f","g","h","i","j","k","l","m",
               "n","o","p","q","r","s","t","u","v","w","x","y","z">>

LowerChar(c) ==
    IF \E i \in 1..26 : UpperCase[i] = c
    THEN LowerCase[CHOOSE i \in 1..26 : UpperCase[i] = c]
    ELSE c

\* str.lower()
Lower(s) == [i \in 1..Len(s) |-> LowerChar(s[i])]

\* needle in hay
IsSubstring(needle, hay) ==
    \E i \in 0..(Len(hay) - Len(needle)) :
        SubSeq(hay, i + 1, i + Len(needle)) = needle

Digits == <<"0","1","2","3","4","5","6","7","8","9">>
IsDigit(c) == \E i \in 1..10 : Digits[i] = c
DigitVal(c) == (CHOOSE i \in 1..10 : Digits[i] = c) - 1

RECURSIVE IntChars(_)
IntChars(n) ==
    IF n < 10 THEN <<Digits[n + 1]>>
    ELSE IntChars(n \div 10) \o <<Digits[(n % 10) + 1]>>

\* The characters of the dict keys the model uses.
KeyChars(key) ==
    CASE key = "timestamp" -> <<"t","i","m","e","s","t","a","m","p">>
      [] key = "event" -> <<"e","v","e","n","t">>
      [] key = "data" -> <<"d","a","t","a">>
      [] OTHER -> <<key>>

\* str(v): Python's repr of a value built from JSON.
RECURSIVE Repr(_)
RECURSIVE ReprItems(_)
RECURSIVE ReprPairs(_)
ReprItems(xs) ==
    IF xs = << >> THEN << >>
    ELSE IF Len(xs) = 1 THEN Repr(xs[1])
    ELSE Repr(xs[1]) \o <<",", " ">> \o ReprItems(Tail(xs))
ReprPairs(ps) ==
    IF ps = << >> THEN << >>
    ELSE LET one == <<"'">> \o KeyChars(ps[1][1]) \o <<"'", ":", " ">>
                    \o Repr(ps[1][2])
         IN IF Len(ps) = 1 THEN one
            ELSE one \o <<",", " ">> \o ReprPairs(Tail(ps))
Repr(v) ==
    CASE v.t = "None" -> <<"N","o","n","e">>
      [] v.t = "int" -> IntChars(v.n)
      [] v.t = "str" -> <<"'">> \o v.chars \o <<"'">>
      [] v.t = "list" -> <<"[">> \o ReprItems(v.items) \o <<"]">>
      [] v.t = "dict" -> <<"{">> \o ReprPairs(v.pairs) \o <<"}">>

-----------------------------------------------------------------------------
(* datetime.strptime(s, '%Y-%m-%d %H:%M:%S') *)

\* The fields of s between separators: s split at every non-digit character,
\* as <<field, separator>> pairs (the last separator is "").
RECURSIVE Fields(_, _)
Fields(s, acc) ==
    IF s = << >> THEN << <<acc, "">> >>
    ELSE IF IsDigit(Head(s)) THEN Fields(Tail(s), Append(acc, Head(s)))
    ELSE << <<acc, Head(s)>> >> \o Fields(Tail(s), << >>)

RECURSIVE Number(_)
Number(ds) ==
    IF ds = << >> THEN 0
    ELSE 10 * Number(SubSeq(ds, 1, Len(ds) - 1)) + DigitVal(ds[Len(ds)])

DaysIn(y, m) ==
    IF m \in {4, 6, 9, 11} THEN 30
    ELSE IF m # 2 THEN 31
    ELSE IF (y % 4 = 0 /\ y % 100 # 0) \/ y % 400 = 0 THEN 29
    ELSE 28

\* The datetime of the fields f: <<day, second of the day>>, or Raise
\* (ValueError: the text does not match the format, or names no date).
\* %Y takes four digits, the other directives one or two.
DateTime(f) ==
    LET len(i) == Len(f[i][1])
        num(i) == Number(f[i][1])
    IN IF /\ Len(f) = 6
          /\ [i \in 1..Len(f) |-> f[i][2]] = <<"-", "-", " ", ":", ":", "">>
          /\ len(1) = 4
          /\ \A i \in 2..6 : len(i) \in {1, 2}
          /\ num(1) >= 1
          /\ num(2) \in 1..12
          /\ num(3) \in 1..DaysIn(num(1), num(2))
          /\ num(4) \in 0..23
          /\ num(5) \in 0..59
          /\ num(6) \in 0..59
       THEN Ok(<<(num(1) * 12 + num(2) - 1) * 31 + num(3) - 1,
                 (num(4) * 60 + num(5)) * 60 + num(6)>>)
       ELSE Raise

StrpTime(s) == DateTime(Fields(s, << >>))

\* a < b on datetimes
Before(a, b) == a[1] < b[1] \/ (a[1] = b[1] /\ a[2] < b[2])

-----------------------------------------------------------------------------
(* Text: the content of a file, or a Python str holding such content.      *)
(* A text is a sequence of pieces; what the program writes in one write    *)
(* is one piece.  The pieces:                                              *)
(*   [k |-> "raw", chars |-> s]      text that is not JSON and no envelope *)
(*   [k |-> "json", value |-> v, style |-> x]   JSON text of the value v;  *)
(*        style "dumps" is the text json.dumps(v) gives, "indent" another  *)
(*        spelling of the same value (other whitespace)                    *)
(*   [k |-> "env", salt_b64 |-> b, token |-> t]   base64(salt) ":" token   *)
(* A text of two or more pieces is neither JSON nor a valid envelope.      *)

RawPiece(s) == [k |-> "raw", chars |-> s]
JsonPiece(v, style) == [k |-> "json", value |-> v, style |-> style]
EmptyText == << >>

\* The text whose characters are s (s spells no JSON and holds no ':').
StrText(s) == IF s = << >> THEN EmptyText ELSE <<RawPiece(s)>>

\* json.loads(text) / json.load(f)
JsonLoads(text) ==
    IF Len(text) = 1 /\ text[1].k = "json" THEN Ok(text[1].value) ELSE Raise

\* json.dumps(v)
JsonDumps(v) == <<JsonPiece(v, "dumps")>>

-----------------------------------------------------------------------------
(* Key derivation, Fernet and the envelope *)

\* The fallback password and the default iteration count
DefaultPassword ==
    PyStr(<<"g","i","t","s","w","h","y","_","d","e","f","a","u","l","t","_",
            "v","a","u","l","t","_","p","a","s","s","w","o","r","d","_",
            "2","0","2","5">>)
DefaultIterations == 100000

\* base64.b64encode / b64decode of a salt
B64Encode(salt) == [b64 |-> salt]
B64Decode(b) == b.b64

\* derive_key as a caller that drops the iterations argument leaves it
DeriveKey_DefaultIterations(password, salt, iterations) ==
    IF password.t = "str"
    THEN Ok([password |-> password.chars, salt |-> salt,
             iterations |-> DefaultIterations])
    ELSE Raise

\* derive_key: PBKDF2-HMAC-SHA256 taken as injective in (password, salt,
\* iterations).  password.encode() needs a str (AttributeError otherwise).
DeriveKey(password, salt, iterations) ==
    IF password.t = "str"
    THEN Ok([password |-> password.chars, salt |-> salt,
             iterations |-> iterations])
    ELSE Raise

\* Fernet(key).encrypt(data): an authenticated token.
FernetEncrypt(key, data) == [key |-> key, data |-> data, intact |-> TRUE]

\* A cipher without authentication: of a token that is not as sealed it
\* returns the part of the plaintext it could decrypt
FernetDecrypt_Stream(key, token) ==
    IF token.key # key THEN Raise
    ELSE IF token.intact THEN Ok(token.data)
    ELSE Ok(<<[k |-> "part", of |-> token.data]>>)

\* A decrypt that checks the key but not whether the token is as sealed
FernetDecrypt_Unauthenticated(key, token) ==
    IF token.key = key THEN Ok(token.data) ELSE Raise

\* Fernet(key).decrypt(token): InvalidToken unless the token is as sealed
\* and was sealed under this very key.
FernetDecrypt(key, token) ==
    IF token.intact /\ token.key = key THEN Ok(token.data) ELSE Raise

\* Lines 60-62 once the key was derived
Seal(key, data, salt) ==
    IF key.ok
    THEN Ok(<<[k |-> "env", salt_b64 |-> B64Encode(salt),
               token |-> FernetEncrypt(key.val, data)]>>)
    ELSE Raise

\* os.urandom(16) on its call number n + 1: 16 random bytes, taken as a
\* value that no other call returns.
os_urandom(n) == n + 1

\* encrypt_data with a salt that is the same for every call
EncryptData_FixedSalt(data, password, iterations, salt) ==
    Seal(DeriveKey(password, 0, iterations), data, 0)

\* encrypt_data; salt is the value os.urandom(16) returned.
EncryptData(data, password, iterations, salt) ==
    Seal(DeriveKey(password, salt, iterations), data, salt)

\* enc.split(':', 1) followed by the base64 decoding of the first part: the
\* salt and the token of a text that is one envelope.  Any other text has no
\* ':' (ValueError), or a first part that is no base64, or a rest that is
\* no Fernet token; all of these end in the same except clause.
SplitEnvelope(enc) ==
    IF Len(enc) = 1 /\ enc[1].k = "env"
    THEN Ok([salt |-> B64Decode(enc[1].salt_b64), token |-> enc[1].token])
    ELSE Raise

\* Fernet(key).decrypt(token) once the key was derived
OpenToken(key, token) ==
    IF key.ok THEN FernetDecrypt(key.val, token) ELSE Raise

\* Lines 67-70 once the envelope was split
OpenParts(parts, password, iterations) ==
    IF parts.ok
    THEN OpenToken(DeriveKey(password, parts.val.salt, iterations),
                   parts.val.token)
    ELSE Raise

\* The try body of decrypt_data (and lines 124-135 of analyze_vault).
DecryptBody(enc, password, iterations) ==
    OpenParts(SplitEnvelope(enc), password, iterations)

\* decrypt_data: every exception becomes RuntimeError("Decryption failed").
DecryptData(enc, password, iterations) == DecryptBody(enc, password, iterations)

\* The exception e that line 72 reports as "Decryption failed: {e}", by its
\* class ("" when the try body raises none): ValueError from the split or
\* the base64 decoding, AttributeError from password.encode(), InvalidToken
\* from Fernet.decrypt.
DecryptError(enc, password, iterations) ==
    IF ~SplitEnvelope(enc).ok THEN "ValueError"
    ELSE IF ~DeriveKey(password, SplitEnvelope(enc).val.salt, iterations).ok
    THEN "AttributeError"
    ELSE IF ~DecryptBody(enc, password, iterations).ok THEN "InvalidToken"
    ELSE ""

-----------------------------------------------------------------------------
(* Files *)

\* A file: [exists |-> BOOLEAN, text |-> Text].
NoFile == [exists |-> FALSE, text |-> EmptyText]
File(text) == [exists |-> TRUE, text |-> text]

read_text_file(f) == f.text

\* write_text_file with the file opened in mode 'a'
write_text_file_Append(f, data) == File(f.text \o data)

\* open(path, 'w') truncates, then data is written.
write_text_file(f, data) == File(data)

read_json_file(f) == JsonLoads(f.text)

\* A file opened with mode 'w+' is empty after it was read and closed.
AfterReading_Truncated(f) == File(EmptyText)

\* with open(path, 'r') as f: f.read() -- the file after it was read and
\* closed: mode 'r' neither creates nor truncates nor writes.
AfterReading(f) == f

-----------------------------------------------------------------------------
(* Configuration *)

\* The config file: [st |-> "missing" | "invalid" | "ok", doc |-> value];
\* "invalid" is a file yaml.safe_load rejects, doc what it returns otherwise.
NoConfig == [st |-> "missing", doc |-> None]
BadConfig == [st |-> "invalid", doc |-> None]
Config(doc) == [st |-> "ok", doc |-> doc]

load_config(cf) == IF cf.st = "ok" THEN Ok(cf.doc) ELSE Raise

\* Line 36 / 44 / 102: config.get('vault', {})
VaultCfg(config) == Get(config, "vault", PyDict(<< >>))

\* vault_cfg.get(key, default) when vault_cfg was obtained
CfgGet(vault_cfg, key, default) ==
    IF vault_cfg.ok THEN Get(vault_cfg.val, key, default) ELSE Raise

\* Lines 38-41: "if pw: return pw", else the fallback
OrFallback(pw) ==
    IF ~pw.ok THEN Raise
    ELSE IF Truthy(pw.val) THEN pw
    ELSE Ok(DefaultPassword)

\* get_password: ENV > config > fallback.
get_password(env, config) ==
    IF Truthy(env) THEN Ok(env)
    ELSE OrFallback(CfgGet(VaultCfg(config), "vault_password", None))

\* int(x)
ToInt(x) ==
    CASE x.t = "int" -> Ok(x.n)
      [] x.t = "str" ->
            IF x.chars # << >> /\ \A i \in 1..Len(x.chars) : IsDigit(x.chars[i])
            THEN Ok(Number(x.chars)) ELSE Raise
      [] OTHER -> Raise

\* int(n) of a value that was obtained
IntOf(n) == IF n.ok THEN ToInt(n.val) ELSE Raise

get_iterations(config) ==
    IntOf(CfgGet(VaultCfg(config), "vault_key_iterations",
                 PyInt(DefaultIterations)))

-----------------------------------------------------------------------------
(* The filter loop of analyze_vault and analyze_vault_builtin *)

\* str(x): a str is itself, any other value its repr.
Str(x) == IF x.t = "str" THEN x.chars ELSE Repr(x)

\* "for event in events": the values a for loop draws (TypeError if none).
Iterate(x) ==
    CASE x.t = "list" -> Ok(x.items)
      [] x.t = "dict" ->
            Ok([i \in 1..Len(x.pairs) |-> PyStr(KeyChars(x.pairs[i][1]))])
      [] x.t = "str" -> Ok([i \in 1..Len(x.chars) |-> PyStr(<<x.chars[i]>>)])
      [] OTHER -> Raise

\* datetime.strptime(x, fmt) of any value: a str is parsed (TypeError else).
ParseTime(x) == IF x.t = "str" THEN StrpTime(x.chars) ELSE Raise

\* ParseGot taking a timestamp that is absent or does not parse as the
\* earliest time
ParseGot_Lenient(ts) ==
    IF ts.ok /\ ParseTime(ts.val).ok THEN ParseTime(ts.val) ELSE Ok(<<0, 0>>)

\* strptime of the value event.get('timestamp', '') gave (ts)
ParseGot(ts) == IF ts.ok THEN ParseTime(ts.val) ELSE Raise

\* Compare with the bounds exclusive: "<=" for "<" and ">=" for ">"
Compare_Exclusive(match, bound_dt, event_dt, later) ==
    IF ~bound_dt.ok \/ ~event_dt.ok THEN FALSE
    ELSE IF later /\ ~Before(event_dt.val, bound_dt.val) THEN FALSE
    ELSE IF ~later /\ ~Before(bound_dt.val, event_dt.val) THEN FALSE
    ELSE match

\* Compare with "match = True" when the event is within the bound
Compare_Reset(match, bound_dt, event_dt, later) ==
    IF ~bound_dt.ok \/ ~event_dt.ok THEN FALSE
    ELSE IF later /\ Before(bound_dt.val, event_dt.val) THEN FALSE
    ELSE IF ~later /\ Before(event_dt.val, bound_dt.val) THEN FALSE
    ELSE TRUE

\* Lines 150-154 (later = FALSE) and 159-163 (later = TRUE): match after the
\* comparison; an exception in the try block sets match False.
Compare(match, bound_dt, event_dt, later) ==
    IF ~bound_dt.ok \/ ~event_dt.ok THEN FALSE
    ELSE IF later /\ Before(bound_dt.val, event_dt.val) THEN FALSE
    ELSE IF ~later /\ Before(event_dt.val, bound_dt.val) THEN FALSE
    ELSE match

\* The time block skipping a bound that does not parse
TimeBlock_IgnoreBadBound(match, event, bound, later) ==
    IF Truthy(bound) /\ ParseTime(bound).ok
    THEN Compare(match, ParseTime(bound),
                 ParseGot(Get(event, "timestamp", PyStr(<< >>))), later)
    ELSE match

\* The if blocks of lines 146-154 (later = FALSE) and 155-163 (later =
\* TRUE): the value match has after the block, given its value before.
TimeBlock(match, event, bound, later) ==
    IF Truthy(bound)
    THEN Compare(match, ParseTime(bound),
                 ParseGot(Get(event, "timestamp", PyStr(<< >>))), later)
    ELSE match

\* The keyword test without the two lower() calls
KeywordBlock_CaseSensitive(match, event, keyword) ==
    IF Truthy(keyword) /\ ~IsSubstring(keyword.chars, Str(event))
    THEN FALSE
    ELSE match

\* Lines 144-145: the value match has after the keyword test.
KeywordBlock(match, event, keyword) ==
    IF /\ Truthy(keyword)
       /\ ~IsSubstring(Lower(keyword.chars), Lower(Str(event)))
    THEN FALSE
    ELSE match

\* One pass of the loop body, lines 143-163: the final value of match.
EventMatch(event, keyword, start_time, end_time) ==
    TimeBlock(TimeBlock(KeywordBlock(TRUE, event, keyword),
                        event, start_time, FALSE),
              event, end_time, TRUE)

\* Lines 164-165: results after one pass of the loop.
Collect(results, event, match) ==
    IF match THEN Append(results, event) ELSE results

\* The for loop, lines 142-165: results after the remaining events.
RECURSIVE FilterLoop(_, _, _, _, _)
FilterLoop(events, results, keyword, start_time, end_time) ==
    IF events = << >> THEN results
    ELSE FilterLoop(Tail(events),
                    Collect(results, Head(events),
                            EventMatch(Head(events), keyword, start_time,
                                       end_time)),
                    keyword, start_time, end_time)

\* Line 140: events = data if isinstance(data, list) else data.get('data', [])
EventsOf(data) ==
    IF data.t = "list" THEN Ok(data) ELSE Get(data, "data", PyList(<< >>))

\* The values the loop draws from events
Drawn(events) == IF events.ok THEN Iterate(events.val) ELSE Raise

\* The loop over the values drawn
Filtered(seq, keyword, start_time, end_time) ==
    IF seq.ok
    THEN Ok(FilterLoop(seq.val, << >>, keyword, start_time, end_time))
    ELSE Raise

\* Lines 140-166 (and 185-212): the events of the payload, filtered.
\* Raise when data has no .get or the events cannot be iterated.
FilterData(data, keyword, start_time, end_time) ==
    Filtered(Drawn(EventsOf(data)), keyword, start_time, end_time)

-----------------------------------------------------------------------------
(* analyze_vault and analyze_vault_builtin *)

\* What an analysis returns: raised (an exception left the function), the
\* events and their count, and for the record the password it resolved and
\* the path it took: "missing", "plain", "decrypt", "unreadable" or "error".
Returned(events, password, path) ==
    [raised |-> FALSE, count |-> Len(events), events |-> events,
     password |-> password, path |-> path]
Raised(password) ==
    [raised |-> TRUE, count |-> 0, events |-> << >>,
     password |-> password, path |-> "error"]

\* Lines 97-105: the password analyze_vault uses.
AnalyzePassword(cf, password) ==
    IF Truthy(password) THEN Ok(password)
    ELSE IF cf.st = "missing" THEN Ok(DefaultPassword)
    ELSE IF cf.st # "ok" THEN Raise
    ELSE CfgGet(VaultCfg(cf.doc), "vault_password", DefaultPassword)

\* json.loads of a text that was decrypted
LoadsDecrypted(dec) == IF dec.ok THEN JsonLoads(dec.val) ELSE Raise

\* Lines 113-136: [data, path]: the payload and where it came from.
\* JSON first; only when that fails the envelope, with 100000 iterations.
LoadVault(plain, enc, password) ==
    IF plain.ok THEN [data |-> plain, path |-> "plain"]
    ELSE [data |-> LoadsDecrypted(
                       DecryptBody(enc, password, DefaultIterations)),
          path |-> "decrypt"]

\* Lines 166-170 after the loop
Results(results, password, path) ==
    IF results.ok THEN Returned(results.val, password, path)
    ELSE Raised(password)

\* Lines 137-170 once the payload was loaded
AnalyzeLoaded(loaded, password, keyword, start_time, end_time) ==
    IF ~loaded.data.ok THEN Returned(<< >>, password, "unreadable")
    ELSE Results(FilterData(loaded.data.val, keyword, start_time, end_time),
                 password, loaded.path)

\* Lines 106-170 once the password is resolved
AnalyzeWith(pw, vf, keyword, start_time, end_time) ==
    IF ~pw.ok THEN Raised(None)
    ELSE IF ~vf.exists THEN Returned(<< >>, pw.val, "missing")
    ELSE AnalyzeLoaded(LoadVault(JsonLoads(read_text_file(vf)),
                                 read_text_file(vf), pw.val),
                       pw.val, keyword, start_time, end_time)

\* Lines 95-170, the body of the outer try.
AnalyzeVaultBody(vf, cf, password, keyword, start_time, end_time) ==
    AnalyzeWith(AnalyzePassword(cf, password), vf, keyword, start_time,
                end_time)

\* analyze_vault without its outer except
ExceptEmpty_Reraise(r) == r

\* Lines 171-173: the outer except returns the empty result.
ExceptEmpty(r) ==
    IF r.raised THEN Returned(<< >>, r.password, "error") ELSE r

analyze_vault(vf, cf, password, keyword, start_time, end_time) ==
    ExceptEmpty(AnalyzeVaultBody(vf, cf, password, keyword, start_time,
                                 end_time))

\* analyze_vault_builtin looping over the payload itself, data key or not
BuiltinLoaded_NoUnwrap(data, keyword, start_time, end_time) ==
    IF ~data.ok THEN Raised(None)
    ELSE Results(Filtered(Iterate(data.val), keyword, start_time, end_time),
                 None, "plain")

\* Lines 185-216 once the file was read as JSON
BuiltinLoaded(data, keyword, start_time, end_time) ==
    IF ~data.ok THEN Raised(None)
    ELSE Results(FilterData(data.val, keyword, start_time, end_time),
                 None, "plain")

\* Lines 180-216, the body of the try of analyze_vault_builtin.
AnalyzeBuiltinBody(vf, keyword, start_time, end_time) ==
    IF ~vf.exists THEN Returned(<< >>, None, "missing")
    ELSE BuiltinLoaded(read_json_file(vf), keyword, start_time, end_time)

\* analyze_vault_builtin without its except
ExceptEmptyList_Reraise(r) == r

\* Lines 217-219: the except returns the empty list.
ExceptEmptyList(r) ==
    IF r.raised THEN Returned(<< >>, None, "error") ELSE r

analyze_vault_builtin(vf, keyword, start_time, end_time) ==
    ExceptEmptyList(AnalyzeBuiltinBody(vf, keyword, start_time, end_time))

-----------------------------------------------------------------------------
(* main() *)

\* The credentials, when the config loaded
Resolve(env, config) ==
    IF config.ok
    THEN [password |-> get_password(env, config.val),
          iterations |-> get_iterations(config.val)]
    ELSE [password |-> Raise, iterations |-> Raise]

Resolved(c) ==
    IF c.password.ok /\ c.iterations.ok
    THEN Ok([password |-> c.password.val, iterations |-> c.iterations.val])
    ELSE Raise

\* Lines 240-247: Ok([password, iterations]), or Raise (exit 1).
Credentials(env, cf) == Resolved(Resolve(env, load_config(cf)))

\* Serialize with str(data) in place of json.dumps(data)
Serialize_Str(data) == StrText(Str(data))

\* Line 258-259: json.dumps unless the value is a str already
Serialize(data) ==
    IF data.t = "str" THEN StrText(data.chars) ELSE JsonDumps(data)

\* Lines 254-259 given what the JSON parse of the input gave
StoreText(parsed, input) ==
    IF parsed.ok THEN Serialize(parsed.val) ELSE read_text_file(input)

\* Lines 254-259: the str that store encrypts.
StoreData(input) == StoreText(read_json_file(input), input)

\* Lines 250-260 given the credentials
StoreEnc(c, input, salt) ==
    IF c.ok /\ input.exists
    THEN EncryptData(StoreData(input), c.val.password, c.val.iterations, salt)
    ELSE Raise

\* Lines 261-265 given the envelope
StoreWrite(enc, vf) ==
    IF enc.ok
    THEN [exit |-> 0, vault |-> write_text_file(vf, enc.val)]
    ELSE [exit |-> 1, vault |-> vf]

\* Lines 240-265: the exit status and the vault file after store.
Store(vf, env, cf, input, salt) ==
    StoreWrite(StoreEnc(Credentials(env, cf), input, salt), vf)

NonJsonSummary == PyStr(<<"n","o","n","-","J","S","O","N">>)

\* Line 278: len(data) if isinstance(data, list) else 1
RecordCount(data) ==
    IF ~data.ok THEN NonJsonSummary
    ELSE IF data.val.t = "list" THEN PyInt(Len(data.val.items))
    ELSE PyInt(1)

\* Lines 276-280: the record count the summary prints.
Summary(dec) == RecordCount(JsonLoads(dec))

\* Lines 267-272 given the credentials
RetrieveDec(c, vf) ==
    IF c.ok /\ vf.exists
    THEN DecryptData(read_text_file(vf), c.val.password, c.val.iterations)
    ELSE Raise

\* Lines 273-283 given the decrypted text
RetrieveOut(dec, output_format) ==
    IF ~dec.ok
    THEN [exit |-> 1, printed |-> FALSE, out |-> EmptyText, summary |-> None]
    ELSE IF output_format = "json"
    THEN [exit |-> 0, printed |-> TRUE, out |-> dec.val, summary |-> None]
    ELSE [exit |-> 0, printed |-> FALSE, out |-> EmptyText,
          summary |-> Summary(dec.val)]

\* What retrieve reports on stderr: "ConfigError" (line 246), "NotFound"
\* (line 268), or the exception of decrypt_data (line 282); "" if nothing.
RetrieveError(c, vf) ==
    IF ~c.ok THEN "ConfigError"
    ELSE IF ~vf.exists THEN "NotFound"
    ELSE DecryptError(read_text_file(vf), c.val.password, c.val.iterations)

\* Lines 240-247 and 266-283: exit status and standard output of retrieve.
Retrieve(vf, env, cf, output_format) ==
    RetrieveOut(RetrieveDec(Credentials(env, cf), vf), output_format)

\* The vault file after retrieve: it is opened (line 271) when the
\* credentials resolved and the file is there.
RetrieveVault(c, vf) == IF c.ok /\ vf.exists THEN AfterReading(vf) ELSE vf

\* The vault file after analyze_vault: it is opened (line 110) when the
\* password pw resolved and the file is there.
AnalyzeVaultFile(pw, vf) == IF pw.ok /\ vf.exists THEN AfterReading(vf) ELSE vf

\* The vault file after the analyze operation of main
AnalyzeMainVault(c, vf, cf) ==
    IF c.ok THEN AnalyzeVaultFile(AnalyzePassword(cf, None), vf) ELSE vf

\* The vault file after analyze_vault_builtin: opened (line 183) if there.
BuiltinVault(vf) == IF vf.exists THEN AfterReading(vf) ELSE vf

\* main turning an analysis that found no readable payload into status 1
Called_Propagate(r) ==
    [exit |-> IF r.raised \/ r.path \in {"missing", "unreadable", "error"}
              THEN 1 ELSE 0,
     called |-> TRUE, r |-> r]

\* The exit status of main around an analysis r: an exception leaving the
\* function ends main with a traceback (status 1).
Called(r) == [exit |-> IF r.raised THEN 1 ELSE 0, called |-> TRUE, r |-> r]

\* Lines 240-247 and 284-291: analyze; sys.exit(1) at line 247 when the
\* credentials do not resolve, before analyze_vault is called.
AnalyzeMain(c, vf, cf, keyword, start_time, end_time) ==
    IF ~c.ok THEN [exit |-> 1, called |-> FALSE, r |-> Returned(<< >>, None, "")]
    ELSE Called(analyze_vault(vf, cf, None, keyword, start_time, end_time))

Analyze(vf, env, cf, keyword, start_time, end_time) ==
    AnalyzeMain(Credentials(env, cf), vf, cf, keyword, start_time, end_time)

\* Lines 292-298: analyze_builtin.
AnalyzeBuiltin(vf, keyword, start_time, end_time) ==
    Called(analyze_vault_builtin(vf, keyword, start_time, end_time))

-----------------------------------------------------------------------------
(* State *)

\* last while nothing has run since the files or the environment changed.
Idle ==
    [op |-> "none", exit |-> 0, called |-> FALSE, raised |-> FALSE,
     printed |-> FALSE, out |-> EmptyText, summary |-> None,
     count |-> 0, events |-> << >>, password |-> None, path |-> "",
     keyword |-> None, start_time |-> None, end_time |-> None,
     argument |-> None, output_format |-> "", over |-> "", error |-> "",
     again |-> FALSE, identical |-> FALSE]

\* No store has the vault open; no retrieve is reading it.
NotWriting == [pc |-> "idle", at |-> 0, text |-> EmptyText, input |-> EmptyText]
NotReading ==
    [pc |-> "idle", off |-> 0, first |-> EmptyText, rest |-> EmptyText]

NotStored ==
    [valid |-> FALSE, input |-> EmptyText, password |-> None, iterations |-> 0,
     tampered |-> FALSE]

-----------------------------------------------------------------------------
(* Bounds and the inputs the model draws *)

MaxSalt == 2      \* os.urandom(16) is called at most MaxSalt times
MaxEvents == 2    \* longest event sequence of a drawn vault payload
AltIterations == 1000  \* a vault_key_iterations other than the default

T1001 == PyStr(<<"2","0","2","5","-","0","7","-","2","3"," ","1","0",":","0","1",":","0","0">>)
T1002 == PyStr(<<"2","0","2","5","-","0","7","-","2","3"," ","1","0",":","0","2",":","0","0">>)
\* the time of T1002 without the zero padding
T1002Short == PyStr(<<"2","0","2","5","-","7","-","2","3"," ","1","0",":","2",":","0">>)
NotADate == PyStr(<<"n","o","t","-","a","-","d","a","t","e">>)

Hesitation == PyStr(<<"H","e","s","i","t","a","t","i","o","n">>)
typing == PyStr(<<"t","y","p","i","n","g">>)
hello == PyStr(<<"h","e","l","l","o">>)

EvHesitation == PyDict(<< <<"timestamp", T1001>>, <<"event", Hesitation>> >>)
EvTyping == PyDict(<< <<"timestamp", T1002>>, <<"event", typing>> >>)
EvBadTime == PyDict(<< <<"timestamp", NotADate>>, <<"event", typing>> >>)
EvNoTime == PyDict(<< <<"event", Hesitation>> >>)
EvNumber == PyInt(7)

EventPool == {EvHesitation, EvTyping, EvBadTime, EvNoTime, EvNumber}
EventSeqs == UNION {[1..n -> EventPool] : n \in 0..MaxEvents}

DataObject(events) == PyDict(<< <<"data", PyList(events)>> >>)

\* Passwords
EnvPw == PyStr(<<"e","1">>)
CfgPw == PyStr(<<"p","1">>)
Environs == {None, EnvPw}

VaultSection(pairs) == Config(PyDict(<< <<"vault", PyDict(pairs)>> >>))
ConfigFiles ==
    {NoConfig, BadConfig, Config(None), Config(PyDict(<< >>)),
     VaultSection(<< >>),
     VaultSection(<< <<"vault_password", PyStr(<< >>)>> >>),
     VaultSection(<< <<"vault_password", CfgPw>> >>),
     VaultSection(<< <<"vault_key_iterations", PyInt(AltIterations)>> >>),
     VaultSection(<< <<"vault_password", CfgPw>>,
                     <<"vault_key_iterations", PyInt(AltIterations)>> >>)}

TwoEvents == PyList(<<EvHesitation, EvTyping>>)

\* --input-file of store
InputFiles ==
    {NoFile,
     File(<<JsonPiece(TwoEvents, "indent")>>),
     File(<<JsonPiece(DataObject(<<EvHesitation, EvTyping>>), "dumps")>>),
     File(<<JsonPiece(hello, "dumps")>>),
     File(<<JsonPiece(PyInt(42), "dumps")>>),
     File(StrText(hello.chars))}

\* Vault files that something other than store left behind.
PlacedVaults ==
    {NoFile,
     File(EmptyText),
     File(StrText(hello.chars)),
     File(<<JsonPiece(TwoEvents, "indent")>>),
     File(<<JsonPiece(DataObject(<<EvTyping>>), "dumps")>>),
     File(<<JsonPiece(PyInt(42), "dumps")>>),
     File(<<JsonPiece(DataObject(<< >>), "dumps")>>)}

Keywords == {None, PyStr(<<"h","e","s","i","t","a","t","i","o","n">>)}
StartTimes == {None, T1002}
EndTimes == {None}
PasswordArgs == {None, CfgPw}

\* Filter arguments of the filter specification
STAMP == PyStr(<<"S","T","A","M","P">>)
AllKeywords ==
    {None, PyStr(<< >>), PyStr(<<"h","e","s","i","t","a","t","i","o","n">>),
     PyStr(<<"T","Y","P">>), STAMP}
AllStartTimes == {None, PyStr(<< >>), T1001, T1002Short, NotADate}
AllEndTimes == {None, T1001, T1002, NotADate}

-----------------------------------------------------------------------------
(* Actions *)

\* The environment variable is set, changed or unset.
SetEnviron(v) ==
    /\ v # environ
    /\ environ' = v
    /\ last' = Idle
    /\ UNCHANGED <<urandom, sealed, writing, reading, configFile, vaultFile, stored>>

\* The config file is written, replaced or removed.
WriteConfig(c) ==
    /\ c # configFile
    /\ configFile' = c
    /\ last' = Idle
    /\ UNCHANGED <<urandom, sealed, writing, reading, environ, vaultFile, stored>>

\* The vault file is placed, replaced or removed by something else.
PutVault(f) ==
    /\ f # vaultFile
    /\ vaultFile' = f
    /\ stored' = NotStored
    /\ last' = Idle
    /\ UNCHANGED <<urandom, sealed, writing, reading, environ, configFile>>

\* The token of an envelope after characters of it were changed
Altered(piece) == [piece EXCEPT !.token.intact = FALSE]

\* Something changes characters of the token part of the envelope that a
\* store wrote.  stored keeps what was sealed; it is no longer valid.
TamperToken ==
    /\ stored.valid
    /\ vaultFile' = File(<<Altered(vaultFile.text[1])>>)
    /\ stored' = [stored EXCEPT !.valid = FALSE, !.tampered = TRUE]
    /\ last' = Idle
    /\ UNCHANGED <<urandom, sealed, writing, reading, environ, configFile>>

\* main --operation store --input-file input
Overwritten(input) ==
    IF ~vaultFile.exists THEN "nothing"
    ELSE IF ~stored.valid THEN "content"
    ELSE IF stored.input = input.text THEN "same"
    ELSE "other"

\* stored after a store that ended as r, run with the credentials c
Remember(r, c, input) ==
    IF r.exit = 0
    THEN [valid |-> TRUE, input |-> input.text,
          password |-> c.val.password, iterations |-> c.val.iterations,
          tampered |-> FALSE]
    ELSE stored

\* This store has the payload and the credentials of the store that wrote
\* the vault it finds.
Again(c, input) ==
    /\ stored.valid
    /\ c.ok
    /\ stored.input = input.text
    /\ stored.password = c.val.password
    /\ stored.iterations = c.val.iterations

AfterStore(r, c, input) ==
    [Idle EXCEPT !.op = "store", !.exit = r.exit, !.over = Overwritten(input),
                 !.again = Again(c, input),
                 !.identical = (r.exit = 0 /\ r.vault = vaultFile)]

\* encrypt_data is reached, and os.urandom called, when the credentials
\* resolved and the input file is there (lines 240-260).
Drew(c, input) == IF c.ok /\ input.exists THEN 1 ELSE 0

\* The salts of the envelopes written, after a store that ended as r: the
\* envelope of that store is the text written last.
Sealed(r) ==
    IF r.exit = 0
    THEN Append(sealed, B64Decode(r.vault.text[Len(r.vault.text)].salt_b64))
    ELSE sealed

MainStore(input) ==
    /\ urandom < MaxSalt
    /\ vaultFile' = Store(vaultFile, environ, configFile, input,
                          os_urandom(urandom)).vault
    /\ stored' = Remember(Store(vaultFile, environ, configFile, input,
                                os_urandom(urandom)),
                          Credentials(environ, configFile), input)
    /\ last' = AfterStore(Store(vaultFile, environ, configFile, input,
                                os_urandom(urandom)),
                          Credentials(environ, configFile), input)
    /\ urandom' = urandom + Drew(Credentials(environ, configFile), input)
    /\ sealed' = Sealed(Store(vaultFile, environ, configFile, input,
                              os_urandom(urandom)))
    /\ UNCHANGED <<environ, configFile, writing, reading>>

\* main --operation retrieve --output-format output_format
AfterRetrieve(r, error, output_format) ==
    [Idle EXCEPT !.op = "retrieve", !.exit = r.exit, !.printed = r.printed,
                 !.out = r.out, !.summary = r.summary, !.error = error,
                 !.output_format = output_format]

MainRetrieve(output_format) ==
    /\ last' = AfterRetrieve(Retrieve(vaultFile, environ, configFile,
                                      output_format),
                             RetrieveError(Credentials(environ, configFile),
                                           vaultFile),
                             output_format)
    /\ vaultFile' = RetrieveVault(Credentials(environ, configFile), vaultFile)
    /\ UNCHANGED <<urandom, sealed, writing, reading, environ, configFile, stored>>

AfterAnalysis(op, r, argument, keyword, start_time, end_time) ==
    [Idle EXCEPT
       !.op = op, !.exit = r.exit, !.called = r.called,
       !.raised = r.r.raised, !.count = r.r.count, !.events = r.r.events,
       !.password = r.r.password, !.path = r.r.path, !.argument = argument,
       !.keyword = keyword, !.start_time = start_time, !.end_time = end_time]

\* main --operation analyze
MainAnalyze(keyword, start_time, end_time) ==
    /\ last' = AfterAnalysis("analyze",
                   Analyze(vaultFile, environ, configFile, keyword,
                           start_time, end_time),
                   None, keyword, start_time, end_time)
    /\ vaultFile' = AnalyzeMainVault(Credentials(environ, configFile),
                                     vaultFile, configFile)
    /\ UNCHANGED <<urandom, sealed, writing, reading, environ, configFile, stored>>

\* main --operation analyze_builtin
MainAnalyzeBuiltin(keyword, start_time, end_time) ==
    /\ last' = AfterAnalysis("analyze_builtin",
                   AnalyzeBuiltin(vaultFile, keyword, start_time, end_time),
                   None, keyword, start_time, end_time)
    /\ vaultFile' = BuiltinVault(vaultFile)
    /\ UNCHANGED <<urandom, sealed, writing, reading, environ, configFile, stored>>

\* analyze_vault(vault_file, config_path, password, ...) called as a function
CallAnalyzeVault(password, keyword, start_time, end_time) ==
    /\ last' = AfterAnalysis("analyze_vault",
                   Called(analyze_vault(vaultFile, configFile, password,
                                        keyword, start_time, end_time)),
                   password, keyword, start_time, end_time)
    /\ vaultFile' = AnalyzeVaultFile(AnalyzePassword(configFile, password),
                                     vaultFile)
    /\ UNCHANGED <<urandom, sealed, writing, reading, environ, configFile, stored>>

-----------------------------------------------------------------------------
(* Specifications *)

Init ==
    /\ environ = None
    /\ configFile = NoConfig
    /\ vaultFile = NoFile
    /\ last = Idle
    /\ stored = NotStored
    /\ urandom = 0
    /\ sealed = << >>
    /\ writing = NotWriting
    /\ reading = NotReading

Next ==
    \/ \E v \in Environs : SetEnviron(v)
    \/ \E c \in ConfigFiles : WriteConfig(c)
    \/ \E f \in PlacedVaults : PutVault(f)
    \/ TamperToken
    \/ \E input \in InputFiles : MainStore(input)
    \/ \E output_format \in {"json", "summary"} : MainRetrieve(output_format)
    \/ \E k \in Keywords, s \in StartTimes, e \in EndTimes :
          MainAnalyze(k, s, e)
    \/ \E k \in Keywords, s \in StartTimes, e \in EndTimes :
          MainAnalyzeBuiltin(k, s, e)
    \/ \E p \in PasswordArgs, k \in Keywords, s \in StartTimes, e \in EndTimes :
          CallAnalyzeVault(p, k, s, e)

Spec == Init /\ [][Next]_vars

\* The filter specification: the vault holds any event sequence, plain (as a
\* list or under a data key) or sealed by store, or an object without a data
\* key, and the analyses run on it with any filter arguments.
FilterVaults ==
    {File(<<JsonPiece(EvTyping, "dumps")>>)} \cup
    UNION {{File(<<JsonPiece(PyList(es), "indent")>>),
            File(<<JsonPiece(DataObject(es), "dumps")>>),
            Store(NoFile, None, Config(PyDict(<< >>)),
                  File(<<JsonPiece(PyList(es), "indent")>>), 1).vault}
           : es \in EventSeqs}

FilterInit ==
    /\ environ = None
    /\ configFile = Config(PyDict(<< >>))
    /\ vaultFile \in FilterVaults
    /\ last = Idle
    /\ stored = NotStored
    /\ urandom = 1
    /\ sealed = <<1>>
    /\ writing = NotWriting
    /\ reading = NotReading

\* An analysis leaves the files as they are, so running one after another
\* reaches nothing that running it first does not.
FilterNext ==
    \/ \E k \in AllKeywords, s \in AllStartTimes, e \in AllEndTimes :
          last.op = "none" /\ MainAnalyze(k, s, e)
    \/ \E k \in AllKeywords, s \in AllStartTimes, e \in AllEndTimes :
          last.op = "none" /\ MainAnalyzeBuiltin(k, s, e)
    \/ \E k \in Keywords, s \in StartTimes, e \in EndTimes :
          last.op = "none" /\ CallAnalyzeVault(None, k, s, e)

FilterSpec == FilterInit /\ [][FilterNext]_vars

-----------------------------------------------------------------------------
(* Store and retrieve as two processes on one vault file.  write_text_file *)
(* opens the file with mode 'w', which leaves it empty, and the text then   *)
(* reaches the file in one or more writes; read_text_file reads until the   *)
(* end of the file, in one or more reads.  Nothing locks the file.          *)

\* The text of a file to which only a part of the salt of the envelope
\* piece was written yet: no ':' in it.
PartSalt(piece) == <<[k |-> "part", salt_b64 |-> piece.salt_b64]>>

\* The file text when the envelope text was written up to stage n:
\* 0 nothing, 1 a part of the salt, 2 the salt, the ':' and a part of the
\* token (none of it included), 3 all of it.
Stage(text, n) ==
    CASE n = 0 -> EmptyText
      [] n = 1 -> PartSalt(text[1])
      [] n = 2 -> <<Altered(text[1])>>
      [] n = 3 -> text

\* How far a reader can get in a file text, as an offset class: 0 the
\* start, 1 inside the salt, 2 just after the ':', 3 inside the token, 4 the
\* end of a whole envelope.
Reach(text) ==
    IF text = EmptyText THEN 0
    ELSE IF text[1].k = "part" THEN 1
    ELSE IF text[1].k = "env" /\ ~text[1].token.intact THEN 3
    ELSE 4

HasToken(text) == text # EmptyText /\ text[1].k = "env"

\* A salt text made of the head of one and the tail of another
MixedSalt == B64Encode(0)

\* What f.read() returns when it read the text first up to offset off and
\* the file held the text rest when it read on from there.  longer: the
\* text rest goes on beyond the length of first.
Join(first, off, rest, longer) ==
    IF rest = first THEN first
    ELSE IF off = 0 THEN rest
    ELSE IF rest # EmptyText /\ rest[1].salt_b64 = first[1].salt_b64
    THEN rest
    ELSE IF off = 1
    THEN IF HasToken(rest)
         THEN <<[k |-> "env", salt_b64 |-> MixedSalt, token |-> rest[1].token]>>
         ELSE PartSalt(first[1])
    ELSE IF off = 2
    THEN IF HasToken(rest)
         THEN <<[first[1] EXCEPT !.token = rest[1].token]>>
         ELSE <<Altered(first[1])>>
    ELSE IF off = 3 THEN <<Altered(first[1])>>
    ELSE IF longer /\ HasToken(rest) THEN <<Altered(first[1])>>
    ELSE first

\* main --operation store up to open(vault, 'w') (lines 240-261 and 87): the
\* envelope is sealed, then the file is created or truncated.  A store that
\* fails before that exits 1 and leaves the file.
BeginStore(input) ==
    /\ writing.pc = "idle"
    /\ urandom < MaxSalt
    /\ IF Store(vaultFile, environ, configFile, input,
                os_urandom(urandom)).exit = 0
       THEN /\ vaultFile' = File(EmptyText)
            /\ writing' = [pc |-> "open", at |-> 0,
                           text |-> Store(vaultFile, environ, configFile,
                                          input, os_urandom(urandom)).vault.text,
                           input |-> input.text]
            /\ last' = Idle
       ELSE /\ last' = AfterStore(Store(vaultFile, environ, configFile, input,
                                        os_urandom(urandom)),
                                  Credentials(environ, configFile), input)
            /\ UNCHANGED <<vaultFile, writing>>
    /\ urandom' = urandom + Drew(Credentials(environ, configFile), input)
    /\ UNCHANGED <<environ, configFile, stored, sealed, reading>>

\* f.write(data), line 88: a write brings the file to a later stage n.
WriteChunk(n) ==
    /\ writing.pc = "open"
    /\ n > writing.at
    /\ vaultFile' = File(Stage(writing.text, n))
    /\ writing' = [writing EXCEPT !.at = n]
    /\ last' = Idle
    /\ UNCHANGED <<environ, configFile, stored, urandom, sealed, reading>>

\* The file is closed with all of the text written; store reports success
\* (line 262).
EndStore ==
    /\ writing.pc = "open"
    /\ writing.at = 3
    /\ writing' = NotWriting
    /\ stored' = Remember([exit |-> 0], Credentials(environ, configFile),
                          File(writing.input))
    /\ sealed' = Append(sealed, B64Decode(writing.text[1].salt_b64))
    /\ last' = [Idle EXCEPT !.op = "store"]
    /\ UNCHANGED <<environ, configFile, vaultFile, urandom, reading>>

\* main --operation retrieve up to its first read (lines 267-271 and 84): the
\* file is there, and the read gets the text up to offset off.
BeginRead(off) ==
    /\ reading.pc # "half"
    /\ vaultFile.exists
    /\ off <= Reach(vaultFile.text)
    /\ reading' = [pc |-> "half", off |-> off, first |-> vaultFile.text,
                   rest |-> EmptyText]
    /\ last' = Idle
    /\ UNCHANGED <<environ, configFile, vaultFile, stored, urandom, sealed,
                   writing>>

\* retrieve reads on to the end of the file as it is now, decrypts what it
\* has read and prints (lines 84 and 272-283).
EndRead(output_format, longer) ==
    /\ reading.pc = "half"
    /\ reading' = [reading EXCEPT !.pc = "done", !.rest = vaultFile.text]
    /\ last' = AfterRetrieve(
                   Retrieve(File(Join(reading.first, reading.off,
                                      vaultFile.text, longer)),
                            environ, configFile, output_format),
                   RetrieveError(Credentials(environ, configFile),
                                 File(Join(reading.first, reading.off,
                                           vaultFile.text, longer))),
                   output_format)
    /\ UNCHANGED <<environ, configFile, vaultFile, stored, urandom, sealed,
                   writing>>

RaceInit ==
    /\ environ = None
    /\ configFile \in {Config(PyDict(<< >>)),
                        VaultSection(<< <<"vault_password", CfgPw>> >>)}
    /\ vaultFile = NoFile
    /\ last = Idle
    /\ stored = NotStored
    /\ urandom = 0
    /\ sealed = << >>
    /\ writing = NotWriting
    /\ reading = NotReading

RaceNext ==
    \/ \E input \in InputFiles : BeginStore(input)
    \/ \E n \in 1..3 : WriteChunk(n)
    \/ EndStore
    \/ \E off \in 0..4 : BeginRead(off)
    \/ \E output_format \in {"json", "summary"}, longer \in BOOLEAN :
          EndRead(output_format, longer)

RaceSpec == RaceInit /\ [][RaceNext]_vars

-----------------------------------------------------------------------------
(* Properties.  last describes an operation run in the current environment *)
(* on the current config file, and vaultFile is the vault as it left it:   *)
(* every change of the environment or of a file resets last to Idle.       *)

\* The credentials main resolves now are those of the last store.
SameCredentials ==
    /\ Credentials(environ, configFile).ok
    /\ Credentials(environ, configFile).val.password = stored.password
    /\ Credentials(environ, configFile).val.iterations = stored.iterations

OtherCredentials ==
    /\ Credentials(environ, configFile).ok
    /\ \/ Credentials(environ, configFile).val.password # stored.password
       \/ Credentials(environ, configFile).val.iterations # stored.iterations

RetrievedStored(output_format) ==
    /\ last.op = "retrieve"
    /\ last.output_format = output_format
    /\ stored.valid

\* json.dumps of the parsed JSON, or the raw text verbatim
DumpsOrRaw(input) ==
    IF JsonLoads(input).ok THEN JsonDumps(JsonLoads(input).val) ELSE input

\* The same, but a JSON document that is one string gives the characters of
\* that string (store leaves a str as it is)
DumpsOrStr(input) ==
    IF ~JsonLoads(input).ok THEN input
    ELSE IF JsonLoads(input).val.t = "str"
    THEN StrText(JsonLoads(input).val.chars)
    ELSE JsonDumps(JsonLoads(input).val)

\* C1, as stated: a retrieve in json format under the credentials of the
\* store that wrote the vault exits 0 and prints json.dumps of the parsed
\* input, or the raw input text when the input is not JSON.
C1_RoundTripAsStated ==
    (RetrievedStored("json") /\ SameCredentials)
        => /\ last.exit = 0
           /\ last.printed
           /\ last.out = DumpsOrRaw(stored.input)

\* C1, amended: as above, except that an input that is a single JSON string
\* comes back as the characters of that string, not as its JSON text.
C1_RoundTrip ==
    (RetrievedStored("json") /\ SameCredentials)
        => /\ last.exit = 0
           /\ last.printed
           /\ last.out = DumpsOrStr(stored.input)

\* A JSON input not spelled as json.dumps spells it was stored and retrieved.
C1_Witness ==
    /\ RetrievedStored("json") /\ SameCredentials
    /\ last.exit = 0
    /\ JsonLoads(stored.input).ok
    /\ stored.input # last.out

\* C2: a retrieve under credentials that differ from those of the store that
\* wrote the vault (in password or in iteration count) exits non-zero and
\* prints nothing.
C2_WrongCredentialsRejected ==
    (last.op = "retrieve" /\ stored.valid /\ OtherCredentials)
        => /\ last.exit # 0
           /\ ~last.printed
           /\ last.out = EmptyText
           /\ last.summary = None

\* A retrieve with the password of the store but another iteration count.
C2_Witness ==
    /\ last.op = "retrieve" /\ stored.valid /\ OtherCredentials
    /\ Credentials(environ, configFile).val.password = stored.password
    /\ last.exit = 1

\* C3: after a store the vault file holds exactly one envelope, which opens
\* under the credentials of that store to the serialization of its input
\* alone, whatever the file held before; and a retrieve under those
\* credentials prints exactly that.
C3_LastStoreWins ==
    stored.valid
        => /\ vaultFile.exists
           /\ Len(vaultFile.text) = 1
           /\ vaultFile.text[1].k = "env"
           /\ DecryptData(vaultFile.text, stored.password, stored.iterations)
                = Ok(StoreData(File(stored.input)))
           /\ (last.op = "retrieve" /\ last.exit = 0 /\ last.printed)
                 => last.out = StoreData(File(stored.input))

\* A store replaced the envelope of an earlier store of another input.
C3_Witness ==
    /\ last.op = "store"
    /\ last.exit = 0
    /\ last.over = "other"
    /\ stored.valid

\* C4: when GITSWHY_VAULT_PASSWORD is set, analyze uses it as the password,
\* as store and retrieve do.
C4_AnalyzeUsesEnvironment ==
    (last.op = "analyze" /\ last.called /\ Truthy(environ))
        => last.password = environ

\* The events of the input of the last store, when it is a VaultPayload.
StoredEvents == EventsOf(JsonLoads(stored.input).val).val.items
StoredPayload ==
    /\ stored.valid
    /\ JsonLoads(stored.input).ok
    /\ JsonLoads(stored.input).val.t \in {"list", "dict"}

\* C5: analyze with no filters, run with the config (and environment) of
\* the store that wrote the vault, returns every stored event, whatever
\* vault_key_iterations is.  (Stated for the runs in which analyze resolved
\* the password of the store, so that only the iteration count is at stake.)
C5_AnalyzeUsesIterations ==
    (/\ last.op = "analyze" /\ last.called
     /\ ~Truthy(last.keyword) /\ ~Truthy(last.start_time)
     /\ ~Truthy(last.end_time)
     /\ StoredPayload /\ SameCredentials
     /\ last.password = stored.password)
        => last.count = Len(StoredEvents)

\* What the vault file holds
VaultJson == vaultFile.exists /\ JsonLoads(vaultFile.text).ok
VaultEnvelope ==
    /\ vaultFile.exists
    /\ Len(vaultFile.text) = 1
    /\ vaultFile.text[1].k = "env"
Token == vaultFile.text[1].token

\* The envelope in the vault was sealed, and is still as sealed, under the
\* key of this password, its own salt and the default iteration count.
SealedFor(password) ==
    /\ VaultEnvelope
    /\ password.t = "str"
    /\ Token.intact
    /\ Token.key.password = password.chars
    /\ Token.key.salt = vaultFile.text[1].salt_b64.b64
    /\ Token.key.iterations = DefaultIterations

NoContainer(text) ==
    JsonLoads(text).ok /\ JsonLoads(text).val.t \notin {"list", "dict"}

\* The failure cases of analyze: the vault file is missing, empty, no JSON
\* and no well-formed envelope, an envelope sealed under other credentials
\* than analyze uses, an envelope of content that is not JSON, or JSON (plain
\* or sealed) that is neither a list nor an object.
FailureCase(password) ==
    \/ ~vaultFile.exists
    \/ vaultFile.text = EmptyText
    \/ ~VaultJson /\ ~VaultEnvelope
    \/ VaultEnvelope /\ ~SealedFor(password)
    \/ VaultEnvelope /\ ~JsonLoads(Token.data).ok
    \/ VaultEnvelope /\ NoContainer(Token.data)
    \/ VaultJson /\ NoContainer(vaultFile.text)

AnalyzeRan == last.op \in {"analyze", "analyze_vault"} /\ last.called

\* C6: analyze_vault returns normally for every vault file and every filter
\* input, and in each failure case returns {count: 0, events: []}.
C6_AnalyzeNeverRaises ==
    AnalyzeRan
        => /\ ~last.raised
           /\ last.exit = 0
           /\ FailureCase(last.password)
                 => (last.count = 0 /\ last.events = << >>)

\* analyze_vault ran on a vault whose JSON is a number and returned empty.
C6_Witness ==
    /\ AnalyzeRan
    /\ VaultJson /\ NoContainer(vaultFile.text)
    /\ ~last.raised
    /\ last.count = 0

\* C7, as stated: the analyze operation of main always exits with status 0,
\* whatever the state of the vault file and of the config file.
C7_AnalyzeExitsZeroAsStated == last.op = "analyze" => last.exit = 0

\* C7, amended: the analyze operation of main exits with status 0, whatever
\* the state of the vault file, whenever the config file loads and the
\* credentials resolve from it; when they do not (the config file is missing,
\* malformed or empty) it exits with status 1 and analyze_vault is not called.
C7_AnalyzeExit ==
    last.op = "analyze"
        => IF Credentials(environ, configFile).ok
           THEN last.exit = 0 /\ last.called
           ELSE last.exit = 1 /\ ~last.called

\* analyze ran on an envelope it could not open and main exited 0.
C7_Witness ==
    /\ last.op = "analyze"
    /\ last.called
    /\ VaultEnvelope /\ ~SealedFor(last.password)
    /\ last.count = 0
    /\ last.exit = 0

BuiltinFailed ==
    /\ last.op = "analyze_builtin"
    /\ ~vaultFile.exists \/ ~VaultJson

C9_PlainIgnoresConfig ==
    (last.op = "analyze_vault" /\ VaultJson)
        => /\ last.events
                = analyze_vault(vaultFile, NoConfig, None, last.keyword,
                                last.start_time, last.end_time).events
           /\ last.count = Len(last.events)

\* The payload of the vault of the filter specification and its events
VaultPayload ==
    IF VaultJson THEN JsonLoads(vaultFile.text).val
    ELSE JsonLoads(Token.data).val
PayloadEvents == EventsOf(VaultPayload).val.items

\* A filter argument counts as supplied when it is given and not empty.
Supplied(x) == x # None /\ x.chars # << >>

KeywordHolds(event, keyword) ==
    IsSubstring(Lower(keyword.chars), Lower(Str(event)))

\* The timestamp of the event parses and is not before (after) the bound,
\* which parses too.
StartHolds(event, bound) ==
    /\ event.t = "dict"
    /\ ParseTime(DictGet(event, "timestamp", PyStr(<< >>))).ok
    /\ ParseTime(bound).ok
    /\ ~Before(ParseTime(DictGet(event, "timestamp", PyStr(<< >>))).val,
               ParseTime(bound).val)
EndHolds(event, bound) ==
    /\ event.t = "dict"
    /\ ParseTime(DictGet(event, "timestamp", PyStr(<< >>))).ok
    /\ ParseTime(bound).ok
    /\ ~Before(ParseTime(bound).val,
               ParseTime(DictGet(event, "timestamp", PyStr(<< >>))).val)

AllHold(event) ==
    /\ Supplied(last.keyword) => KeywordHolds(event, last.keyword)
    /\ Supplied(last.start_time) => StartHolds(event, last.start_time)
    /\ Supplied(last.end_time) => EndHolds(event, last.end_time)

\* C10: the events analyze returns are exactly the events of the payload for
\* which every supplied predicate holds, each once and in the stored order,
\* and count is their number.
C10_FilterIsConjunction ==
    AnalyzeRan
        => /\ last.events = SelectSeq(PayloadEvents, AllHold)
           /\ last.count = Len(last.events)

\* Both time bounds supplied, and two events returned in the stored order,
\* which is not the order of their timestamps.
C10_Witness ==
    /\ AnalyzeRan
    /\ Supplied(last.start_time) /\ Supplied(last.end_time)
    /\ PayloadEvents = <<EvTyping, EvHesitation>>
    /\ last.events = <<EvTyping, EvHesitation>>

-----------------------------------------------------------------------------
(* The filter predicates, one claim each; checked under FilterSpec. *)

\* An analysis ran and had a payload to filter: analyze and analyze_vault on
\* any vault of the filter specification, analyze_builtin on the plain ones.
FilterRan ==
    /\ last.called
    /\ IF last.op = "analyze_builtin" THEN VaultJson
       ELSE last.op \in {"analyze", "analyze_vault"}

InResult(event) == \E i \in 1..Len(last.events) : last.events[i] = event

\* The event is an object whose timestamp parses; TimeOf is that time.
Parseable(event) ==
    /\ event.t = "dict"
    /\ ParseTime(DictGet(event, "timestamp", PyStr(<< >>))).ok
TimeOf(event) == ParseTime(DictGet(event, "timestamp", PyStr(<< >>))).val

\* t >= s on datetimes, equality included
AtOrAfter(t, s) == t = s \/ Before(s, t)

\* (start_time not supplied or t >= start_time) and (end_time not supplied or
\* t <= end_time); a supplied bound that does not parse is no time at all.
InBounds(event) ==
    /\ Supplied(last.start_time)
          => /\ ParseTime(last.start_time).ok
             /\ AtOrAfter(TimeOf(event), ParseTime(last.start_time).val)
    /\ Supplied(last.end_time)
          => /\ ParseTime(last.end_time).ok
             /\ AtOrAfter(ParseTime(last.end_time).val, TimeOf(event))

\* C11: an event whose timestamp parses is returned iff it passes the
\* keyword predicate and its time t has t >= start_time and t <= end_time for
\* each bound supplied: the bounds are inclusive on both ends.
C11_BoundsInclusive ==
    FilterRan
        => \A i \in 1..Len(PayloadEvents) :
              Parseable(PayloadEvents[i])
                 => (InResult(PayloadEvents[i])
                       <=> /\ Supplied(last.keyword)
                                 => KeywordHolds(PayloadEvents[i], last.keyword)
                           /\ InBounds(PayloadEvents[i]))

\* An event at 10:02:00 was returned with start_time and end_time both
\* 10:02:00 (start_time spelled without the zero padding).
C11_Witness ==
    /\ FilterRan
    /\ last.start_time = T1002Short
    /\ last.end_time = T1002
    /\ InResult(EvTyping)

Malformed(event) == ~Parseable(event)
AnyBound == Supplied(last.start_time) \/ Supplied(last.end_time)
KeywordOk(event) ==
    Supplied(last.keyword) => KeywordHolds(event, last.keyword)

\* C12: an event whose timestamp is absent or does not parse is never
\* returned when a time bound is supplied, is returned (subject to the keyword
\* predicate only) when none is, and in both cases the query goes on: it
\* returns normally and the other events are filtered as they are without it.
C12_MalformedTolerated ==
    FilterRan
        => /\ ~last.raised
           /\ last.exit = 0
           /\ AnyBound
                 => \A i \in 1..Len(last.events) : Parseable(last.events[i])
           /\ ~AnyBound
                 => SelectSeq(last.events, Malformed)
                      = SelectSeq(SelectSeq(PayloadEvents, Malformed),
                                  KeywordOk)
           /\ SelectSeq(last.events, Parseable)
                 = SelectSeq(SelectSeq(PayloadEvents, Parseable), AllHold)

\* With a bound supplied, the event after one with an unparsable timestamp
\* was returned and that one was not.
C12_Witness ==
    /\ FilterRan
    /\ AnyBound
    /\ PayloadEvents = <<EvBadTime, EvTyping>>
    /\ last.events = <<EvTyping>>

\* Letter case folded the other way: every lower-case letter as its capital.
UpperChar(c) ==
    IF \E i \in 1..26 : LowerCase[i] = c
    THEN UpperCase[CHOOSE i \in 1..26 : LowerCase[i] = c]
    ELSE c
Upper(s) == [i \in 1..Len(s) |-> UpperChar(s[i])]

\* The keyword occurs in the text of the whole event, letter case apart.
Occurs(event) == IsSubstring(Upper(last.keyword.chars), Upper(Str(event)))

TimeOk(event) ==
    /\ Supplied(last.start_time) => StartHolds(event, last.start_time)
    /\ Supplied(last.end_time) => EndHolds(event, last.end_time)

\* C13: with a keyword supplied, an event is returned iff the keyword occurs
\* in str(event), the text of the whole event, whatever the letter case of
\* either (and the time predicates hold).
C13_KeywordCaseInsensitive ==
    (FilterRan /\ Supplied(last.keyword))
        => \A i \in 1..Len(PayloadEvents) :
              InResult(PayloadEvents[i])
                 <=> (Occurs(PayloadEvents[i]) /\ TimeOk(PayloadEvents[i]))

\* The keyword STAMP selected the event whose only match is the name of its
\* timestamp field, in lower case, and left out the event without that field.
C13_Witness ==
    /\ FilterRan
    /\ last.keyword = STAMP
    /\ PayloadEvents = <<EvNoTime, EvBadTime>>
    /\ last.events = <<EvBadTime>>

-----------------------------------------------------------------------------
(* Frame, tampering, salts, summary *)

\* A step of retrieve, analyze, analyze_builtin or analyze_vault
ReadStep ==
    last'.op \in {"retrieve", "analyze", "analyze_builtin", "analyze_vault"}

\* C14: retrieve, analyze and analyze_builtin (and analyze_vault called as a
\* function) leave the vault file as it was, whether they succeed or fail:
\* neither created nor truncated nor rewritten.
C14_ReadsLeaveVault == [][ReadStep => vaultFile' = vaultFile]_vars

\* A retrieve failed on a plain JSON vault, which is still there.
C14_Witness ==
    /\ last.op = "retrieve"
    /\ last.exit = 1
    /\ VaultJson

\* retrieve failed and put nothing on standard output
FailedClosed ==
    /\ last.exit # 0
    /\ ~last.printed
    /\ last.out = EmptyText
    /\ last.summary = None

\* C15: a retrieve of a vault whose token was altered after the store fails
\* with a non-zero exit and no output, and with credentials that resolve it
\* reports the same exception as a retrieve under credentials other than
\* those of the store: InvalidToken, whose text is empty.
C15_TamperingFailsClosed ==
    last.op = "retrieve"
        => /\ stored.tampered => FailedClosed
           /\ (stored.tampered /\ Credentials(environ, configFile).ok)
                 => last.error = "InvalidToken"
           /\ (stored.valid /\ OtherCredentials)
                 => last.error = "InvalidToken"

\* A retrieve under the credentials of the store, of the envelope it wrote
\* with its token altered.
C15_Witness ==
    /\ last.op = "retrieve"
    /\ stored.tampered
    /\ SameCredentials
    /\ last.exit = 1
    /\ last.error = "InvalidToken"

\* C16: every store seals with a salt of its own: no salt occurs twice among
\* the envelopes written, the envelope in the vault after a store carries
\* the salt drawn for it, and the envelope string a store writes differs
\* from the one it replaces, also when payload and credentials are the same.
C16_SaltsUnique ==
    /\ \A i, j \in 1..Len(sealed) : i # j => sealed[i] # sealed[j]
    /\ (last.op = "store" /\ last.exit = 0)
          => /\ ~last.identical
             /\ B64Decode(vaultFile.text[1].salt_b64) = sealed[Len(sealed)]
             /\ vaultFile.text[1].token.key.salt = sealed[Len(sealed)]

\* A second store with the payload and the credentials of the first.
C16_Witness ==
    /\ last.op = "store"
    /\ last.exit = 0
    /\ last.again
    /\ Len(sealed) = 2

\* C17: retrieve in summary format, under the credentials of the store that
\* wrote the vault, exits 0 and reports the number of events of the payload,
\* be it a list of n events or an object whose data key holds n events, and
\* reports non-JSON content when what it decrypted is not JSON.
C17_SummaryCountsEvents ==
    (RetrievedStored("summary") /\ SameCredentials)
        => /\ last.exit = 0
           /\ ~JsonLoads(DumpsOrStr(stored.input)).ok
                 => last.summary = NonJsonSummary
           /\ StoredPayload
                 => last.summary = PyInt(Len(StoredEvents))

BadBound(x) == Supplied(x) /\ ~ParseTime(x).ok

\* C19: when a supplied start_time or end_time does not parse, analyze,
\* analyze_vault and analyze_builtin return normally with no event at all
\* (count 0), whatever the events are: the bound is neither ignored nor
\* raised as an error.
C19_BadBoundEmptiesResult ==
    (last.called /\ (BadBound(last.start_time) \/ BadBound(last.end_time)))
        => /\ ~last.raised
           /\ last.exit = 0
           /\ last.events = << >>
           /\ last.count = 0

\* analyze_builtin with end_time not-a-date on a plain list of two events
\* with valid timestamps.
C19_Witness ==
    /\ last.op = "analyze_builtin"
    /\ last.called
    /\ BadBound(last.end_time)
    /\ ~Supplied(last.keyword) /\ ~Supplied(last.start_time)
    /\ VaultJson
    /\ PayloadEvents = <<EvHesitation, EvTyping>>
    /\ last.count = 0

-----------------------------------------------------------------------------
(* Retrieve interleaved with store; checked under RaceSpec. *)

\* The complete plaintext of the envelope a file text is, or is a part of
Payloads(text) == IF HasToken(text) THEN {text[1].token.data} ELSE {}

\* The payloads complete in the vault while retrieve read it: that of the
\* envelope there at its first read and that of the one at its last.
Complete == Payloads(reading.first) \cup Payloads(reading.rest)

\* C20: however the reads of a retrieve interleave with the truncation and
\* the writes of a store to the same vault, retrieve either fails with a
\* non-zero exit and no output, or exits 0 with the complete payload of the
\* envelope that was in the vault before the store or of the one the store
\* writes (in summary format: with the summary of one of them).
C20_RaceFailsClosed ==
    (last.op = "retrieve" /\ reading.pc = "done")
        => \/ FailedClosed
           \/ /\ last.exit = 0
              /\ last.printed
              /\ last.out \in Complete
           \/ /\ last.exit = 0
              /\ ~last.printed
              /\ last.output_format = "summary"
              /\ last.summary \in {Summary(p) : p \in Complete}

\* Retrieve read the salt of the old envelope and, after a store in between,
\* the whole token of the new one; it failed.
C20_Witness ==
    /\ last.op = "retrieve"
    /\ reading.pc = "done"
    /\ reading.off = 2
    /\ Reach(reading.first) = 4
    /\ Reach(reading.rest) = 4
    /\ reading.rest # reading.first
    /\ last.exit = 1
    /\ last.error = "InvalidToken"

====
